---------------------------- MODULE Spec2Model ----------------------------
(* Model of streamlit_embracon_app.py: the ticket normalizer, the code      *)
(* derivers, the consolidated / filtered tables, the probability estimate   *)
(* and the quota check.  A Python str is a sequence of one-character        *)
(* strings; the character "^2" stands for U+00B2 (SUPERSCRIPT TWO), a       *)
(* character for which str.isdigit() is True and int() raises ValueError.   *)
EXTENDS Integers, Sequences, FiniteSets, TLC

VARIABLES pc,
          raw_bilhetes, grupo_tamanho, limite_cota, minhas_cotas_raw,
          bilhetes, construidos, regra_label, width, repeticoes,
          df_unique, df_filtrado, p_draw, unidade, pad, df_minas,
          avisos, erro,
          b, centenas, milhares, n_bilhetes

inVars  == <<raw_bilhetes, grupo_tamanho, limite_cota, minhas_cotas_raw>>
outVars == <<bilhetes, construidos, regra_label, width, repeticoes,
             df_unique, df_filtrado, p_draw, unidade, pad, df_minas,
             avisos, erro>>
fnVars  == <<b, centenas, milhares, n_bilhetes>>
vars    == <<pc, inVars, outVars, fnVars>>

-----------------------------------------------------------------------------
(* Bounds of the model.                                                     *)
MaxRawLen == 6
MaxTicketLen == 6
MaxTickets == 2
MaxQuotaLen == 4
MaxN == 12

-----------------------------------------------------------------------------
(* Characters and str methods.                                              *)

AsciiDigits == {"0", "1", "2", "3", "4", "5", "6", "7", "8", "9"}

\* str.isdigit() for one character: the ASCII digits and also U+00B2
IsDigitChar(ch) == ch \in AsciiDigits \cup {"^2"}

\* characters str.strip() removes
IsSpaceChar(ch) == ch \in {" ", "\n"}

\* code point of a character (the order Python compares str by)
Ord(ch) ==
    CASE ch = "\n" -> 10
      [] ch = " "  -> 32
      [] ch = ","  -> 44
      [] ch = "0"  -> 48
      [] ch = "1"  -> 49
      [] ch = "2"  -> 50
      [] ch = "3"  -> 51
      [] ch = "4"  -> 52
      [] ch = "5"  -> 53
      [] ch = "6"  -> 54
      [] ch = "7"  -> 55
      [] ch = "8"  -> 56
      [] ch = "9"  -> 57
      [] ch = ";"  -> 59
      [] ch = "a"  -> 97
      [] ch = "^2" -> 178

\* all strings over an alphabet with lo..hi characters
Strings(A, lo, hi) == UNION {[1..n -> A] : n \in lo..hi}

\* s.replace(old, new) for one-character old and new
Replace(s, old, new) == [i \in 1..Len(s) |-> IF s[i] = old THEN new ELSE s[i]]

\* s.split(sep) for a one-character sep: "".split(",") is [""]
RECURSIVE Split(_, _)
Split(s, sep) ==
    IF \A i \in 1..Len(s) : s[i] # sep
    THEN <<s>>
    ELSE LET i == CHOOSE k \in 1..Len(s) :
                      s[k] = sep /\ \A j \in 1..(k - 1) : s[j] # sep
         IN  <<SubSeq(s, 1, i - 1)>> \o Split(SubSeq(s, i + 1, Len(s)), sep)

\* s.strip()
Strip(s) ==
    IF \A i \in 1..Len(s) : IsSpaceChar(s[i])
    THEN <<>>
    ELSE LET lo == CHOOSE k \in 1..Len(s) :
                       ~IsSpaceChar(s[k]) /\ \A j \in 1..(k - 1) : IsSpaceChar(s[j])
             hi == CHOOSE k \in 1..Len(s) :
                       ~IsSpaceChar(s[k]) /\ \A j \in (k + 1)..Len(s) : IsSpaceChar(s[j])
         IN  SubSeq(s, lo, hi)

\* ''.join(ch for ch in p if ch.isdigit())
OnlyDigits(p) == SelectSeq(p, IsDigitChar)

\* a variant of LastChars that keeps the first n characters (s[:n])
FirstChars(s, n) == IF Len(s) <= n THEN s ELSE SubSeq(s, 1, n)

\* s[-n:]
LastChars(s, n) == IF Len(s) <= n THEN s ELSE SubSeq(s, Len(s) - n + 1, Len(s))

\* s.zfill(w) of a string without sign
RECURSIVE ZFill(_, _)
ZFill(s, w) == IF Len(s) >= w THEN s ELSE ZFill(<<"0">> \o s, w)

\* s.isdigit(): non-empty and every character a digit
StrIsDigit(s) == Len(s) > 0 /\ \A i \in 1..Len(s) : IsDigitChar(s[i])

\* whether int(s) accepts s (s already known to satisfy isdigit)
IntAccepts(s) == \A i \in 1..Len(s) : s[i] \in AsciiDigits

\* int(s) for a string of ASCII digits
RECURSIVE StrToInt(_)
StrToInt(s) ==
    IF Len(s) = 0 THEN 0
    ELSE 10 * StrToInt(SubSeq(s, 1, Len(s) - 1)) + (Ord(s[Len(s)]) - 48)

\* the character of one decimal digit
DigitChar(d) == CHOOSE ch \in AsciiDigits : Ord(ch) = 48 + d

\* str(n) for n >= 0
RECURSIVE IntToStr(_)
IntToStr(n) ==
    IF n < 10 THEN <<DigitChar(n)>>
    ELSE IntToStr(n \div 10) \o <<DigitChar(n % 10)>>

\* a < b as Python compares str
RECURSIVE StrLess(_, _)
StrLess(s, t) ==
    IF Len(t) = 0 THEN FALSE
    ELSE IF Len(s) = 0 THEN TRUE
    ELSE IF s[1] # t[1] THEN Ord(s[1]) < Ord(t[1])
    ELSE StrLess(Tail(s), Tail(t))

-----------------------------------------------------------------------------
(* parse_bilhetes                                                           *)

\* one pass of the loop body: the normalized ticket of a part with digits
NormalizePart(p) == ZFill(LastChars(OnlyDigits(p), 5), 5)

\* parts = [p.strip() for p in raw.replace(";", ",").split(",") if p.strip()]
Parts(raw) ==
    LET pieces   == Split(Replace(raw, ";", ","), ",")
        stripped == [i \in 1..Len(pieces) |-> Strip(pieces[i])]
    IN  SelectSeq(stripped, LAMBDA p : Len(p) > 0)

parse_bilhetes(raw) ==
    IF Len(raw) = 0 THEN <<>>
    ELSE LET parts   == Parts(raw)
             kept    == SelectSeq(parts, LAMBDA p : Len(OnlyDigits(p)) > 0)
         IN  [i \in 1..Len(kept) |-> NormalizePart(kept[i])]

-----------------------------------------------------------------------------
(* gerar_centenas_por_bilhete, gerar_milhares_por_bilhete                   *)

\* s[lo:hi] for 0 <= lo <= hi (Python slices clamp to the string)
Slice(s, lo, hi) ==
    LET h == IF hi > Len(s) THEN Len(s) ELSE hi
    IN  IF lo >= h THEN <<>> ELSE SubSeq(s, lo + 1, h)

\* the outcome of a call: a returned value, or the exception it raised
Returned(v) == [raised |-> "", value |-> v]
Raised(e)   == [raised |-> e, value |-> <<>>]

\* a variant of gerar_centenas_por_bilhete with the windows first to last
gerar_centenas_primeira_a_ultima(t) ==
    IF Len(t) # 5 THEN Raised("AssertionError")
    ELSE Returned(<<Slice(t, 0, 3), Slice(t, 1, 4), Slice(t, 2, 5)>>)

\* a variant of gerar_milhares_por_bilhete without its assertion
gerar_milhares_sem_assert(t) == Returned(<<Slice(t, 1, 5), Slice(t, 0, 4)>>)

gerar_centenas_por_bilhete(t) ==
    IF Len(t) # 5 THEN Raised("AssertionError")
    ELSE Returned(<<Slice(t, 2, 5), Slice(t, 1, 4), Slice(t, 0, 3)>>)

gerar_milhares_por_bilhete(t) ==
    IF Len(t) # 5 THEN Raised("AssertionError")
    ELSE Returned(<<Slice(t, 1, 5), Slice(t, 0, 4)>>)

-----------------------------------------------------------------------------
(* Exact arithmetic for calcular_probabilidade.  A natural number is a      *)
(* sequence of limbs in base 10000, least significant first, without high   *)
(* zero limbs; a probability is a fraction [num, den] of two naturals.      *)

RECURSIVE BigNorm(_)
BigNorm(a) ==
    IF Len(a) = 0 THEN a
    ELSE IF a[Len(a)] = 0 THEN BigNorm(SubSeq(a, 1, Len(a) - 1)) ELSE a

RECURSIVE BigFromInt(_)
BigFromInt(n) ==
    IF n = 0 THEN <<>> ELSE <<n % 10000>> \o BigFromInt(n \div 10000)

Limb(a, i) == IF i <= Len(a) THEN a[i] ELSE 0

RECURSIVE BigAddFrom(_, _, _, _)
BigAddFrom(a, c, i, carry) ==
    IF i > Len(a) /\ i > Len(c)
    THEN IF carry = 0 THEN <<>> ELSE <<carry>>
    ELSE LET t == Limb(a, i) + Limb(c, i) + carry
         IN  <<t % 10000>> \o BigAddFrom(a, c, i + 1, t \div 10000)

BigAdd(a, c) == BigNorm(BigAddFrom(a, c, 1, 0))

\* a - c for a >= c
RECURSIVE BigSubFrom(_, _, _, _)
BigSubFrom(a, c, i, borrow) ==
    IF i > Len(a) THEN <<>>
    ELSE LET t == Limb(a, i) - Limb(c, i) - borrow
         IN  IF t < 0
             THEN <<t + 10000>> \o BigSubFrom(a, c, i + 1, 1)
             ELSE <<t>> \o BigSubFrom(a, c, i + 1, 0)

BigSub(a, c) == BigNorm(BigSubFrom(a, c, 1, 0))

\* a * k for 0 <= k <= 10000
RECURSIVE BigMulSmallFrom(_, _, _, _)
BigMulSmallFrom(a, k, i, carry) ==
    IF i > Len(a)
    THEN IF carry = 0 THEN <<>> ELSE <<carry>>
    ELSE LET t == a[i] * k + carry
         IN  <<t % 10000>> \o BigMulSmallFrom(a, k, i + 1, t \div 10000)

BigMulSmall(a, k) == BigNorm(BigMulSmallFrom(a, k, 1, 0))

RECURSIVE BigMul(_, _)
BigMul(a, c) ==
    IF Len(c) = 0 THEN <<>>
    ELSE BigAdd(BigMulSmall(a, c[1]),
                BigNorm(<<0>> \o BigMul(a, Tail(c))))

RECURSIVE BigLessFrom(_, _, _)
BigLessFrom(a, c, i) ==
    IF i = 0 THEN FALSE
    ELSE IF a[i] # c[i] THEN a[i] < c[i]
    ELSE BigLessFrom(a, c, i - 1)

BigLess(a, c) ==
    IF Len(a) # Len(c) THEN Len(a) < Len(c) ELSE BigLessFrom(a, c, Len(a))

BigLeq(a, c) == ~BigLess(c, a)

RECURSIVE BigPow(_, _)
BigPow(a, n) == IF n = 0 THEN <<1>> ELSE BigMul(BigPow(a, n - 1), a)

Frac(n, d) == [num |-> BigFromInt(n), den |-> BigFromInt(d)]

FracMulInt(k, x) == [num |-> BigMulSmall(x.num, k), den |-> x.den]

\* 1 - x for 0 <= x <= 1
OneMinus(x) == [num |-> BigSub(x.den, x.num), den |-> x.den]

RECURSIVE FracPow(_, _)
FracPow(x, n) ==
    IF n = 0 THEN Frac(1, 1)
    ELSE LET y == FracPow(x, n - 1)
         IN  [num |-> BigMul(y.num, x.num), den |-> BigMul(y.den, x.den)]

FracLeq(x, y) == BigLeq(BigMul(x.num, y.den), BigMul(y.num, x.den))
FracEq(x, y)  == BigMul(x.num, y.den) = BigMul(y.num, x.den)

Max(m, n) == IF m >= n THEN m ELSE n

\* a variant of calcular_probabilidade that returns the chance of no hit
calcular_probabilidade_sem_complemento(grupo, n) ==
    LET centena      == grupo <= 1000
        p_per_window == IF centena THEN Frac(1, 1000) ELSE Frac(1, 10000)
        windows      == IF centena THEN 3 ELSE 2
        label        == IF centena THEN "centena" ELSE "milhar"
        p_ticket     == FracMulInt(windows, p_per_window)
    IN  <<FracPow(OneMinus(p_ticket), Max(1, n)), label>>

calcular_probabilidade(grupo, n) ==
    LET centena      == grupo <= 1000
        p_per_window == IF centena THEN Frac(1, 1000) ELSE Frac(1, 10000)
        windows      == IF centena THEN 3 ELSE 2
        label        == IF centena THEN "centena" ELSE "milhar"
        p_ticket     == FracMulInt(windows, p_per_window)
    IN  <<OneMinus(FracPow(OneMinus(p_ticket), Max(1, n))), label>>

-----------------------------------------------------------------------------
(* The DataFrame operations of the pipeline.  A DataFrame is the sequence   *)
(* of its rows; a row is a record of its columns.                           *)

RECURSIVE Concat(_)
Concat(seqs) == IF Len(seqs) = 0 THEN <<>> ELSE Head(seqs) \o Concat(Tail(seqs))

\* [x for _ in range(n)]
Repeat(x, n) == [i \in 1..n |-> x]

\* a variant of RowBefore that sorts by numero_int alone
RowBeforeSemBilhete(r, q) == r.numero_int < q.numero_int

\* the order of sort_values(["numero_int", "bilhete"])
RowBefore(r, q) ==
    \/ r.numero_int < q.numero_int
    \/ r.numero_int = q.numero_int /\ StrLess(r.bilhete, q.bilhete)

\* the order of sort_values("numero_int", ascending=False)
RowBeforeDesc(r, q) == r.numero_int > q.numero_int

\* whether row r sorts before row q: descending is sort_values("numero_int",
\* ascending=False), otherwise sort_values(["numero_int", "bilhete"])
Before(r, q, descending) ==
    IF descending THEN RowBeforeDesc(r, q) ELSE RowBefore(r, q)

\* stable insertion of row r into a sorted frame
RECURSIVE InsertRow(_, _, _)
InsertRow(r, frame, descending) ==
    IF Len(frame) = 0 THEN <<r>>
    ELSE IF Before(r, Head(frame), descending) THEN <<r>> \o frame
    ELSE <<Head(frame)>> \o InsertRow(r, Tail(frame), descending)

\* a stable sort: each row goes after the rows it is not before
RECURSIVE SortRows(_, _)
SortRows(frame, descending) ==
    IF Len(frame) = 0 THEN <<>>
    ELSE InsertRow(frame[Len(frame)],
                   SortRows(SubSeq(frame, 1, Len(frame) - 1), descending),
                   descending)

\* df.sort_values(["numero_int", "bilhete"])
SortValues(frame) == SortRows(frame, FALSE)

\* df.sort_values("numero_int", ascending=False)
SortValuesDesc(frame) == SortRows(frame, TRUE)

\* a variant of DropDuplicates that drops nothing
DropNothing(frame) == frame

\* df.drop_duplicates(subset=["numero"]): the first row of each numero stays
DropDuplicates(frame) ==
    LET first(i) == \A j \in 1..(i - 1) : frame[j].numero # frame[i].numero
        idx      == SelectSeq([i \in 1..Len(frame) |-> i], first)
    IN  [k \in 1..Len(idx) |-> frame[idx[k]]]

\* a variant of FilterLimit with a strict comparison
FilterBelowLimit(frame, lim) == SelectSeq(frame, LAMBDA r : r.numero_int < lim)

\* df_unique[df_unique["numero_int"] <= lim]
FilterLimit(frame, lim) == SelectSeq(frame, LAMBDA r : r.numero_int <= lim)

-----------------------------------------------------------------------------
(* The places of the script that branch on the group size.                  *)

\* line 94: which deriver builds construidos
UsaCentenas(grupo) == grupo <= 1000

\* line 107: how often each ticket is repeated in the "bilhete" column
Repeticoes(grupo) == IF grupo <= 1000 THEN 3 ELSE 2

\* a variant of Pad with the boundary one lower
PadAbaixoDeMil(grupo) == IF grupo < 1000 THEN 3 ELSE 4

\* line 141: the width quotas are padded to
Pad(grupo) == IF grupo <= 1000 THEN 3 ELSE 4

-----------------------------------------------------------------------------
(* The quota check (lines 139-155).                                         *)

\* c.replace('0', '')
RemoveZeros(c) == SelectSeq(c, LAMBDA ch : ch # "0")

\* minhas = [s.strip() for s in minhas_cotas_raw.split(',') if s.strip()]
Minhas(raw) ==
    LET pieces   == Split(raw, ",")
        stripped == [i \in 1..Len(pieces) |-> Strip(pieces[i])]
    IN  SelectSeq(stripped, LAMBDA p : Len(p) > 0)

\* the filter of the comprehension at line 142
CotaValida(c) == StrIsDigit(c) \/ StrIsDigit(RemoveZeros(c))

\* str(int(c)).zfill(pad)
NormalizaCota(c, w) == ZFill(IntToStr(StrToInt(c)), w)

\* rows of df_minas for the normalized quotas, against the codes of frame
ConfereCotas(minhas_norm, frame) ==
    LET hit_set == {frame[i].numero : i \in 1..Len(frame)}
    IN  [i \in 1..Len(minhas_norm) |->
            [cota |-> minhas_norm[i],
             contemplada |-> IF minhas_norm[i] \in hit_set THEN "Sim" ELSE "Nao"]]

-----------------------------------------------------------------------------
(* One run of the script (lines 82-166) on the widgets' values.  The result *)
(* is what the run leaves on the page; a raised exception ends the run and  *)
(* what was not yet computed stays blank.                                   *)

NoProb == [num |-> <<>>, den |-> <<1>>]

\* the messages of st.info and st.warning
InfoInsira    == "Insira os bilhetes para comecar."
AvisoLimite   == "Nenhum numero gerado esta dentro do limite informado."
AvisoSemCotas == "Nenhuma cota valida informada."

Blank ==
    [bilhetes |-> <<>>, construidos |-> <<>>, regra_label |-> "", width |-> 0,
     repeticoes |-> 0, df_unique |-> <<>>, df_filtrado |-> <<>>,
     p_draw |-> NoProb, unidade |-> "", pad |-> 0, df_minas |-> <<>>,
     avisos |-> {}, erro |-> ""]

\* lines 94-101: one deriver call per ticket
Derivados(bil, grupo) ==
    [i \in 1..Len(bil) |->
        IF UsaCentenas(grupo) THEN gerar_centenas_por_bilhete(bil[i])
                              ELSE gerar_milhares_por_bilhete(bil[i])]

\* lines 111-114
DfUnique(df) ==
    DropDuplicates(SortValues(
        [i \in 1..Len(df) |->
            [bilhete |-> df[i].bilhete, numero |-> df[i].numero,
             numero_int |-> StrToInt(df[i].numero)]]))

\* lines 117-119
DfFiltrado(unique, lim) == SortValuesDesc(FilterLimit(unique, lim))

\* lines 139-155
ScriptCotas(s, grupo, cotas) ==
    IF Len(cotas) = 0 THEN s
    ELSE LET minhas  == Minhas(cotas)
             w       == Pad(grupo)
             validas == SelectSeq(minhas, CotaValida)
         IN  IF \E i \in 1..Len(validas) : ~IntAccepts(validas[i])
             THEN [s EXCEPT !.pad = w, !.erro = "ValueError"]
             ELSE LET minhas_norm ==
                          [i \in 1..Len(validas) |-> NormalizaCota(validas[i], w)]
                  IN  IF Len(minhas_norm) = 0
                      THEN [s EXCEPT !.pad = w,
                                     !.avisos = @ \cup {AvisoSemCotas}]
                      ELSE [s EXCEPT !.pad = w,
                                     !.df_minas = ConfereCotas(minhas_norm, s.df_unique)]

\* lines 106-136
ScriptTabelas(s, grupo, lim, cotas) ==
    LET bil == s.bilhetes
        rep == Repeticoes(grupo)
        col == Concat([i \in 1..Len(bil) |-> Repeat(bil[i], rep)])
        s1  == [s EXCEPT !.repeticoes = rep]
    IN  IF Len(col) # Len(s.construidos)
        THEN [s1 EXCEPT !.erro = "ValueError"]
        ELSE IF \E i \in 1..Len(s.construidos) : ~IntAccepts(s.construidos[i])
        THEN [s1 EXCEPT !.erro = "ValueError"]
        ELSE LET df       == [i \in 1..Len(col) |->
                                 [bilhete |-> col[i], numero |-> s.construidos[i]]]
                 unique   == DfUnique(df)
                 filtrado == DfFiltrado(unique, lim)
                 prob     == calcular_probabilidade(grupo, Len(bil))
                 s2       == [s1 EXCEPT
                                 !.df_unique = unique,
                                 !.df_filtrado = filtrado,
                                 !.avisos = IF Len(filtrado) = 0
                                            THEN {AvisoLimite} ELSE {},
                                 !.p_draw = prob[1],
                                 !.unidade = prob[2]]
             IN  IF prob[1].num = <<>>
                 THEN [s2 EXCEPT !.erro = "ZeroDivisionError"]
                 ELSE ScriptCotas(s2, grupo, cotas)

\* lines 82-166
Script(raw, grupo, lim, cotas) ==
    LET bil == parse_bilhetes(raw)
        s0  == [Blank EXCEPT !.bilhetes = bil]
    IN  IF Len(bil) = 0
        THEN [s0 EXCEPT !.avisos = {InfoInsira}]
        ELSE LET der == Derivados(bil, grupo)
             IN  IF \E i \in 1..Len(der) : der[i].raised # ""
                 THEN [s0 EXCEPT !.erro = "AssertionError"]
                 ELSE ScriptTabelas(
                          [s0 EXCEPT
                              !.construidos = Concat([i \in 1..Len(der) |-> der[i].value]),
                              !.regra_label = IF UsaCentenas(grupo)
                                              THEN "Centenas (3 por premio)"
                                              ELSE "Milhares (2 por premio)",
                              !.width = IF UsaCentenas(grupo) THEN 3 ELSE 4],
                          grupo, lim, cotas)

-----------------------------------------------------------------------------
(* The widgets (lines 71-80) and the values the model gives them.           *)

MinGrupo == 2
MaxGrupo == 10000
MaxLimite == 10000

\* what is typed for one ticket: every 4-digit string of two digits, which
\* the normalizer pads to 5
Typed == [1..4 -> {"0", "1"}]

\* a list of tickets typed separated by ", "
RECURSIVE Digitado(_)
Digitado(list) ==
    IF Len(list) = 0 THEN <<>>
    ELSE IF Len(list) = 1 THEN list[1]
    ELSE list[1] \o <<",", " ">> \o Digitado(Tail(list))

\* the lists of up to n typed tickets
TypedLists(n) == UNION {[1..k -> Typed] : k \in 0..n}

T48602 == <<"4", "8", "6", "0", "2">>
T01927 == <<"0", "1", "9", "2", "7">>
T00701 == <<"0", "0", "7", "0", "1">>

QuotaAlphabet == {"0", "7", ",", " ", "a", "^2"}

\* the widgets hold these values
Entrada(raw, grupo, lim, cotas) ==
    /\ raw_bilhetes = raw
    /\ grupo_tamanho = grupo
    /\ limite_cota = lim
    /\ minhas_cotas_raw = cotas

\* lists of up to n tickets, at the group sizes around the rule's boundary
EntradasBilhetes(n) ==
    \E l \in TypedLists(n), g \in {1000, 1001}, lim \in {10, 600} :
        Entrada(Digitado(l), g, lim, <<>>)

\* every group size lo..hi, with a quota to check
EntradasGrupo(lo, hi) ==
    \E g \in lo..hi : Entrada(T48602, g, 600, <<"7", "0">>)

\* every limit 0..hi
EntradasLimite(hi) ==
    \E g \in {1000, 1001}, lim \in 0..hi :
        Entrada(Digitado(<<T48602, T01927>>), g, lim, <<>>)

\* quota texts of up to n characters
EntradasCotas(n) ==
    \E g \in {1000, 1001}, c \in Strings(QuotaAlphabet, 0, n) :
        Entrada(T00701, g, 600, c)

-----------------------------------------------------------------------------
(* Specification Spec: the widgets hold some values and the script runs.    *)

OutputsAre(s) ==
    /\ bilhetes = s.bilhetes
    /\ construidos = s.construidos
    /\ regra_label = s.regra_label
    /\ width = s.width
    /\ repeticoes = s.repeticoes
    /\ df_unique = s.df_unique
    /\ df_filtrado = s.df_filtrado
    /\ p_draw = s.p_draw
    /\ unidade = s.unidade
    /\ pad = s.pad
    /\ df_minas = s.df_minas
    /\ avisos = s.avisos
    /\ erro = s.erro

FnIdle ==
    /\ b = <<>>
    /\ centenas = Returned(<<>>)
    /\ milhares = Returned(<<>>)
    /\ n_bilhetes = 0

WidgetsIdle ==
    /\ grupo_tamanho = 1000
    /\ limite_cota = 600
    /\ minhas_cotas_raw = <<>>

Init ==
    /\ pc = "changed"
    /\ \/ EntradasBilhetes(MaxTickets)
       \/ EntradasGrupo(MinGrupo, MaxGrupo)
       \/ EntradasLimite(MaxLimite)
       \/ EntradasCotas(MaxQuotaLen)
    /\ OutputsAre(Blank)
    /\ FnIdle

\* the script's result becomes the page
Render(s) ==
    /\ bilhetes' = s.bilhetes
    /\ construidos' = s.construidos
    /\ regra_label' = s.regra_label
    /\ width' = s.width
    /\ repeticoes' = s.repeticoes
    /\ df_unique' = s.df_unique
    /\ df_filtrado' = s.df_filtrado
    /\ p_draw' = s.p_draw
    /\ unidade' = s.unidade
    /\ pad' = s.pad
    /\ df_minas' = s.df_minas
    /\ avisos' = s.avisos
    /\ erro' = s.erro

\* a run that finds no ticket (line 165)
RerunSemBilhetes ==
    /\ pc = "changed"
    /\ parse_bilhetes(raw_bilhetes) = <<>>
    /\ LET s == Script(raw_bilhetes, grupo_tamanho, limite_cota, minhas_cotas_raw)
       IN  Render(s)
    /\ pc' = "rendered"
    /\ UNCHANGED <<inVars, fnVars>>

\* a run with tickets (lines 92-163)
RerunComBilhetes ==
    /\ pc = "changed"
    /\ parse_bilhetes(raw_bilhetes) # <<>>
    /\ LET s == Script(raw_bilhetes, grupo_tamanho, limite_cota, minhas_cotas_raw)
       IN  Render(s)
    /\ pc' = "rendered"
    /\ UNCHANGED <<inVars, fnVars>>

Next == RerunSemBilhetes \/ RerunComBilhetes

Spec == Init /\ [][Next]_vars

-----------------------------------------------------------------------------
(* Specification SpecParse: parse_bilhetes on every short text.             *)

ParseAlphabet == {"0", "1", ",", ";", "\n", "a"}

\* the texts "1927", "123456" and "48602, 01927"
ParseExamples ==
    {<<"1", "9", "2", "7">>, <<"1", "2", "3", "4", "5", "6">>,
     Digitado(<<T48602, T01927>>)}

InitParse ==
    /\ pc = "input"
    /\ raw_bilhetes \in Strings(ParseAlphabet, 0, MaxRawLen) \cup ParseExamples
    /\ WidgetsIdle
    /\ OutputsAre(Blank)
    /\ FnIdle

\* line 82
Normalize ==
    /\ pc = "input"
    /\ bilhetes' = parse_bilhetes(raw_bilhetes)
    /\ pc' = "parsed"
    /\ UNCHANGED <<inVars, fnVars, construidos, regra_label, width, repeticoes,
                   df_unique, df_filtrado, p_draw, unidade, pad, df_minas,
                   avisos, erro>>

NextParse == Normalize

SpecParse == InitParse /\ [][NextParse]_vars

-----------------------------------------------------------------------------
(* Specification SpecDerive: the derivers called on any string, and on the  *)
(* tickets the normalizer hands them (lines 92-101).                        *)

DeriveAlphabet == {"0", "1", "2", "a", ","}

InitDerive ==
    /\ pc = "input"
    /\ raw_bilhetes \in Strings(DeriveAlphabet, 0, MaxTicketLen) \cup {T48602}
    /\ WidgetsIdle
    /\ OutputsAre(Blank)
    /\ FnIdle

\* a direct call of both derivers on the string
DeriveDirect ==
    /\ pc = "input"
    /\ b' = raw_bilhetes
    /\ centenas' = gerar_centenas_por_bilhete(raw_bilhetes)
    /\ milhares' = gerar_milhares_por_bilhete(raw_bilhetes)
    /\ pc' = "called"
    /\ UNCHANGED <<inVars, outVars, n_bilhetes>>

\* the pipeline's calls: the string is normalized and a ticket of it derived
DeriveNormalized ==
    /\ pc = "input"
    /\ bilhetes' = parse_bilhetes(raw_bilhetes)
    /\ \E i \in 1..Len(bilhetes') :
          /\ b' = bilhetes'[i]
          /\ centenas' = gerar_centenas_por_bilhete(b')
          /\ milhares' = gerar_milhares_por_bilhete(b')
    /\ pc' = "derived"
    /\ UNCHANGED <<inVars, n_bilhetes, construidos, regra_label, width, repeticoes,
                   df_unique, df_filtrado, p_draw, unidade, pad, df_minas,
                   avisos, erro>>

NextDerive == DeriveDirect \/ DeriveNormalized

SpecDerive == InitDerive /\ [][NextDerive]_vars

-----------------------------------------------------------------------------
(* Specification SpecProb: calcular_probabilidade for a fixed group size    *)
(* and a growing number of tickets.                                         *)

\* the group sizes at the ends of the widget's range and around the boundary
ProbGrupos == {MinGrupo, MaxGrupo} \cup 900..1100

InitProb ==
    /\ pc = "prob"
    /\ raw_bilhetes = <<>>
    /\ grupo_tamanho \in ProbGrupos
    /\ limite_cota = 600
    /\ minhas_cotas_raw = <<>>
    /\ n_bilhetes = 0
    /\ OutputsAre([Blank EXCEPT
                      !.p_draw = calcular_probabilidade(grupo_tamanho, 0)[1],
                      !.unidade = calcular_probabilidade(grupo_tamanho, 0)[2]])
    /\ b = <<>>
    /\ centenas = Returned(<<>>)
    /\ milhares = Returned(<<>>)

\* line 133 with one more ticket
MaisUmBilhete ==
    /\ pc = "prob"
    /\ n_bilhetes < MaxN
    /\ n_bilhetes' = n_bilhetes + 1
    /\ p_draw' = calcular_probabilidade(grupo_tamanho, n_bilhetes')[1]
    /\ unidade' = calcular_probabilidade(grupo_tamanho, n_bilhetes')[2]
    /\ UNCHANGED <<pc, inVars, b, centenas, milhares, bilhetes, construidos,
                   regra_label, width, repeticoes, df_unique, df_filtrado, pad,
                   df_minas, avisos, erro>>

NextProb == MaisUmBilhete

SpecProb == InitProb /\ [][NextProb]_vars

-----------------------------------------------------------------------------
(* Claims about parse_bilhetes, checked under SpecParse.                    *)

\* the positions of s that hold one of the characters seps, in order
RECURSIVE CutsFrom(_, _, _)
CutsFrom(s, seps, i) ==
    IF i > Len(s) THEN <<>>
    ELSE IF s[i] \in seps THEN <<i>> \o CutsFrom(s, seps, i + 1)
    ELSE CutsFrom(s, seps, i + 1)

\* the segments of s between separators (empty ones included), in order
SegmentsOf(s, seps) ==
    LET cuts == <<0>> \o CutsFrom(s, seps, 1) \o <<Len(s) + 1>>
    IN  [k \in 1..(Len(cuts) - 1) |-> SubSeq(s, cuts[k] + 1, cuts[k + 1] - 1)]

HasDigit(seg) == \E i \in 1..Len(seg) : seg[i] \in AsciiDigits

\* the segments that contain a digit, in order
NumericSegments(s, seps) == SelectSeq(SegmentsOf(s, seps), HasDigit)

DigitsOf(seg) == SelectSeq(seg, LAMBDA ch : ch \in AsciiDigits)

IsTicket(t) == Len(t) = 5 /\ \A i \in 1..5 : t[i] \in AsciiDigits

\* C1: a text of N segments with a digit, the segments separated by commas,
\* semicolons or line breaks, is normalized to exactly N tickets of 5 digits
\* each; segments without a digit do not count.
C1_OneTicketPerSegment ==
    pc = "parsed" =>
        /\ Len(bilhetes) = Len(NumericSegments(raw_bilhetes, {",", ";", "\n"}))
        /\ \A k \in 1..Len(bilhetes) : IsTicket(bilhetes[k])

-----------------------------------------------------------------------------
(* Claims about the derivers, checked under SpecDerive.                     *)

\* the characters of t at the 1-based positions lo..hi
Window(t, lo, hi) == [i \in 1..(hi - lo + 1) |-> t[lo + i - 1]]

\* C4: for a 5-digit ticket the centenas are the windows [2:5], [1:4], [0:3]
\* in this order and the milhares the windows [1:5], [0:4] in this order
\* ("48602" gives 602, 860, 486 and 8602, 4860); whatever a deriver returns
\* has that count and those widths.
C4_WindowsInOrder ==
    pc \in {"called", "derived"} =>
        /\ IsTicket(b) =>
              /\ centenas = Returned(<<Window(b, 3, 5), Window(b, 2, 4), Window(b, 1, 3)>>)
              /\ milhares = Returned(<<Window(b, 2, 5), Window(b, 1, 4)>>)
        /\ b = T48602 =>
              /\ centenas.value = << <<"6", "0", "2">>, <<"8", "6", "0">>, <<"4", "8", "6">> >>
              /\ milhares.value = << <<"8", "6", "0", "2">>, <<"4", "8", "6", "0">> >>
        /\ centenas.raised = "" =>
              /\ Len(centenas.value) = 3
              /\ \A i \in 1..3 : Len(centenas.value[i]) = 3
        /\ milhares.raised = "" =>
              /\ Len(milhares.value) = 2
              /\ \A i \in 1..2 : Len(milhares.value[i]) = 4

\* C4 witness: the derivers were called on "48602"
C4_Witness ==
    /\ pc = "called"
    /\ b = T48602
    /\ centenas.value[1] = <<"6", "0", "2">>
    /\ milhares.value[2] = <<"4", "8", "6", "0">>

-----------------------------------------------------------------------------
(* Claims about calcular_probabilidade, checked under SpecProb.             *)

\* 1 - (1 - w/S)^max(1, n) as one fraction: (S^m - (S - w)^m) / S^m
ClosedForm(grupo, n) ==
    LET S == IF grupo <= 1000 THEN 1000 ELSE 10000
        w == IF grupo <= 1000 THEN 3 ELSE 2
        m == IF n < 1 THEN 1 ELSE n
    IN  [num |-> BigSub(BigPow(BigFromInt(S), m), BigPow(BigFromInt(S - w), m)),
         den |-> BigPow(BigFromInt(S), m)]

\* C8: for a fixed group size the probability is 1 - (1 - w/S)^max(1, n),
\* it lies in [0, 1], it does not decrease when the ticket count grows, and
\* for no ticket it is what it is for one.
C8_MonotoneInTicketCount ==
    /\ [](pc = "prob" =>
            /\ FracEq(p_draw, ClosedForm(grupo_tamanho, n_bilhetes))
            /\ FracLeq(Frac(0, 1), p_draw)
            /\ FracLeq(p_draw, Frac(1, 1)))
    /\ [][pc = "prob" =>
            /\ FracLeq(p_draw, p_draw')
            /\ n_bilhetes = 0 => FracEq(p_draw, p_draw')]_vars

\* C8 witness: two tickets in a group of 1000 give 1 - 0.997^2 = 0.005991
C8_Witness ==
    /\ pc = "prob"
    /\ grupo_tamanho = 1000
    /\ n_bilhetes = 2
    /\ FracEq(p_draw, Frac(5991, 1000000))

-----------------------------------------------------------------------------
(* Claims about the pipeline, checked under Spec.                           *)

Rendered == pc = "rendered" /\ bilhetes # <<>>

\* the codes a ticket gives under the rule of a group size
CodesOfTicket(t, grupo) ==
    IF grupo <= 1000
    THEN {Window(t, 3, 5), Window(t, 2, 4), Window(t, 1, 3)}
    ELSE {Window(t, 2, 5), Window(t, 1, 4)}

\* the codes all the tickets give
CodesOfTickets(ts, grupo) == UNION {CodesOfTicket(ts[i], grupo) : i \in 1..Len(ts)}

\* the number a code reads as
RECURSIVE ValueOf(_)
ValueOf(code) ==
    IF Len(code) = 0 THEN 0
    ELSE 10 * ValueOf(SubSeq(code, 1, Len(code) - 1))
          + (Ord(code[Len(code)]) - Ord("0"))

\* s before t in lexical order, for strings of one length
LexLess(s, t) ==
    \E k \in 1..Len(s) :
        /\ \A j \in 1..(k - 1) : s[j] = t[j]
        /\ Ord(s[k]) < Ord(t[k])

\* C3: the rule depends on the group size alone: up to 1000 every ticket gives
\* 3 codes of width 3, the quota pad is 3 and the label "centena"; from 1001
\* on 2 codes of width 4, pad 4 and "milhar"; the derivation, the repetition of
\* the ticket column, the quota pad and the probability agree.
C3_RuleByGroupSizeAlone ==
    Rendered =>
        LET n == IF grupo_tamanho <= 1000 THEN 3 ELSE 2
            w == IF grupo_tamanho <= 1000 THEN 3 ELSE 4
        IN  /\ erro \in {"", "ValueError"}
            /\ erro = "ValueError" => minhas_cotas_raw # <<>> /\ df_unique # <<>>
            /\ Len(construidos) = n * Len(bilhetes)
            /\ \A i \in 1..Len(construidos) : Len(construidos[i]) = w
            /\ width = w
            /\ repeticoes = n
            /\ minhas_cotas_raw # <<>> => pad = w
            /\ unidade = (IF grupo_tamanho <= 1000 THEN "centena" ELSE "milhar")
            /\ FracEq(p_draw, ClosedForm(grupo_tamanho, Len(bilhetes)))

\* C3 witness: a group of 1001 under the milhar rule, quotas checked
C3_Witness ==
    /\ Rendered
    /\ grupo_tamanho = 1001
    /\ minhas_cotas_raw # <<>>
    /\ width = 4 /\ repeticoes = 2 /\ pad = 4 /\ unidade = "milhar"

\* C5: the full view holds exactly one entry for each distinct code derived
\* from the tickets, in ascending order of the codes' numeric values.
C5_OneEntryPerCodeAscending ==
    Rendered =>
        /\ {df_unique[i].numero : i \in 1..Len(df_unique)}
              = CodesOfTickets(bilhetes, grupo_tamanho)
        /\ \A i, j \in 1..Len(df_unique) :
              i < j => ValueOf(df_unique[i].numero) < ValueOf(df_unique[j].numero)

\* C5 witness: two different tickets share a code, which is listed once
C5_Witness ==
    /\ Rendered
    /\ Len(bilhetes) = 2
    /\ bilhetes[1] # bilhetes[2]
    /\ CodesOfTicket(bilhetes[1], grupo_tamanho)
          \cap CodesOfTicket(bilhetes[2], grupo_tamanho) # {}
    /\ Len(df_unique) < Len(construidos)

\* C6: the filtered view holds exactly the entries of the full view whose
\* value is at most the limit, with the same ticket, in strictly descending
\* order of value; it is empty exactly when the warning is shown, and an
\* empty view is no error.
C6_FilteredWithinLimitDescending ==
    Rendered =>
        /\ {<<df_filtrado[i].numero, df_filtrado[i].bilhete>> : i \in 1..Len(df_filtrado)}
              = {<<df_unique[i].numero, df_unique[i].bilhete>> :
                    i \in {k \in 1..Len(df_unique) :
                              ValueOf(df_unique[k].numero) <= limite_cota}}
        /\ \A i, j \in 1..Len(df_filtrado) :
              i < j => ValueOf(df_filtrado[i].numero) > ValueOf(df_filtrado[j].numero)
        /\ (df_filtrado = <<>>) <=> (AvisoLimite \in avisos)
        /\ minhas_cotas_raw = <<>> => erro = ""

\* C6 witness: the limit keeps some entries, at least two, and drops others
C6_Witness ==
    /\ Rendered
    /\ Len(df_filtrado) >= 2
    /\ Len(df_filtrado) < Len(df_unique)

\* C10: the ticket listed with a code produces that code under the rule, and
\* it is the lexically lowest of the entered tickets that do, whatever the
\* order they were entered in.
C10_LowestTicketRepresents ==
    Rendered =>
        \A i \in 1..Len(df_unique) :
            LET r == df_unique[i]
            IN  /\ \E k \in 1..Len(bilhetes) : bilhetes[k] = r.bilhete
                /\ r.numero \in CodesOfTicket(r.bilhete, grupo_tamanho)
                /\ \A k \in 1..Len(bilhetes) :
                      r.numero \in CodesOfTicket(bilhetes[k], grupo_tamanho)
                          => ~LexLess(bilhetes[k], r.bilhete)

\* C10 witness: a code of the first ticket is listed with the second ticket,
\* which is the lower one
C10_Witness ==
    /\ Rendered
    /\ Len(bilhetes) = 2
    /\ LexLess(bilhetes[2], bilhetes[1])
    /\ \E i \in 1..Len(df_unique) :
          /\ df_unique[i].bilhete = bilhetes[2]
          /\ df_unique[i].numero \in CodesOfTicket(bilhetes[1], grupo_tamanho)

\* the quota entries: the text between commas, trimmed, empty ones left out
QuotaEntries(raw) ==
    LET segs == SegmentsOf(raw, {","})
    IN  SelectSeq([k \in 1..Len(segs) |-> Strip(segs[k])], LAMBDA e : Len(e) > 0)

\* an entry made of the digits 0-9 only
IsNumeric(e) == Len(e) > 0 /\ \A i \in 1..Len(e) : e[i] \in AsciiDigits

\* the number an entry reads as, left-padded with zeros to width w
PaddedTo(e, w) ==
    LET v == IntToStr(ValueOf(e))
    IN  [i \in 1..Max(w, Len(v)) |->
            IF i <= Max(w, Len(v)) - Len(v) THEN "0" ELSE v[i - (Max(w, Len(v)) - Len(v))]]

\* C7: every numeric quota entry is left-padded with zeros to the rule's
\* width and reported "Sim" exactly when the padded code is a code of the
\* full view; the other entries give no row and no error.
C7_QuotaRowsWithoutError ==
    Rendered /\ minhas_cotas_raw # <<>> =>
        LET numeric == SelectSeq(QuotaEntries(minhas_cotas_raw), IsNumeric)
            w       == IF grupo_tamanho <= 1000 THEN 3 ELSE 4
            codes   == {df_unique[i].numero : i \in 1..Len(df_unique)}
        IN  /\ erro = ""
            /\ Len(df_minas) = Len(numeric)
            /\ \A k \in 1..Len(numeric) :
                  /\ df_minas[k].cota = PaddedTo(numeric[k], w)
                  /\ (df_minas[k].contemplada = "Sim") <=> (df_minas[k].cota \in codes)

=============================================================================
